---- MODULE Spec2Model ----
(***************************************************************************)
(* libbtrfsrs: the tree-search cursor (src/src/tree_search.rs), the record  *)
(* decode layer (src/src/item.rs), the endian wrappers (src/src/le.rs) and  *)
(* the physical-address resolution cursor (src/src/logical_ino.rs).         *)
(*                                                                         *)
(* One cursor (TreeSearch) is pulled repeatedly over a fixed tree.  The    *)
(* page-request primitive (BTRFS_IOC_TREE_SEARCH_V2) is the kernel's; it   *)
(* is modelled as the interface section describes it: it returns, in       *)
(* ascending key order, the records that lie within the descriptor's       *)
(* min/max filters, at most `cap` of them per call.                        *)
(*                                                                         *)
(* 64-bit fields range over 0..MaxU64, MaxU64 standing for 2^64 - 1: the   *)
(* additions of TreeSearch::next overflow exactly at MaxU64.               *)
(***************************************************************************)
EXTENDS Integers, Sequences, FiniteSets, TLC

VARIABLES
    tree,       \* the volume's tree: a set of records, fixed during a run
    cap,        \* per-page record cap of the page-request primitive, fixed
    profile,    \* "debug" (overflow checks panic) or "release" (wrap), fixed
    args0,      \* the descriptor as TreeSearch::new built it, fixed
    args,       \* TreeSearch.args.key  (btrfs_ioctl_search_key)
    buffer,     \* TreeSearch.args.buffer: the pages written, newest first
    bp,         \* TreeSearch.bp
    result,     \* what the last pull returned: "init", "None", "Err", "Ok", "panic"
    panic,      \* why the last pull panicked, "none" otherwise
    emitted,    \* every (key, item) returned as Some(Ok(..)), in order
    requests,   \* page requests issued so far
    reqs,       \* page requests issued by the last pull
    fails,      \* page requests that failed so far
    pulls,      \* pulls made so far
    search,     \* the ranges the caller gave TreeSearch::new, fixed
    call,       \* SpecPure: the function applied and its arguments, fixed
    ret,        \* SpecPure: what the call returned
    inodes,     \* the (inum, offset, root) triples referencing the address, fixed
    li_cap,     \* triples a page of the resolution primitive holds at most, fixed
    li_unit,    \* words one counted element spans: 3 (a triple) or 1, fixed
    li,         \* the LogicalIno cursor: bytenr, container, bp
    li_result,  \* what the last LogicalIno pull returned
    li_emitted, \* every triple returned as Some(Ok(..)), in order
    li_requests,\* page requests the LogicalIno cursor issued so far
    li_reqs,    \* page requests issued by its last pull
    li_fails,   \* its page requests that failed so far
    li_pulls,   \* its pulls so far
    cursors     \* SpecPair: two TreeSearch cursors over the same handle

tsVars == <<tree, cap, profile, args0, args, buffer, bp, result, panic,
            emitted, requests, reqs, fails, pulls, search>>

pureVars == <<call, ret>>

liVars == <<inodes, li_cap, li_unit, li, li_result, li_emitted, li_requests,
            li_reqs, li_fails, li_pulls>>

pairVars == <<cursors>>

vars == <<tsVars, pureVars, liVars, pairVars>>

----------------------------------------------------------------------------
(* Bounds of the model *)

MaxU64 == 3
NrItemsMax == 1000
MaxRecs == 2
MaxPulls == 6
MaxFails == 1

----------------------------------------------------------------------------
(* Kind tags: enum KeyType, tree_search.rs 81-123 *)

BTRFS_INODE_ITEM_KEY == 1
BTRFS_INODE_REF_KEY == 12
BTRFS_INODE_EXTREF_KEY == 13
BTRFS_XATTR_ITEM_KEY == 24
BTRFS_ORPHAN_ITEM_KEY == 48
BTRFS_DIR_LOG_ITEM_KEY == 60
BTRFS_DIR_ITEM_KEY == 84
BTRFS_DIR_INDEX_KEY == 96
BTRFS_EXTENT_DATA_KEY == 108
BTRFS_EXTENT_CSUM_KEY == 128
BTRFS_ROOT_ITEM_KEY == 132
BTRFS_ROOT_BACKREF_KEY == 144
BTRFS_ROOT_REF_KEY == 156
BTRFS_EXTENT_ITEM_KEY == 168
BTRFS_METADATA_ITEM_KEY == 169
BTRFS_BLOCK_GROUP_ITEM_KEY == 192
BTRFS_FREE_SPACE_INFO_KEY == 198
BTRFS_FREE_SPACE_EXTENT_KEY == 199
BTRFS_FREE_SPACE_BITMAP_KEY == 200
BTRFS_DEV_EXTENT_KEY == 204
BTRFS_DEV_ITEM_KEY == 216
BTRFS_CHUNK_ITEM_KEY == 228
BTRFS_QGROUP_STATUS_KEY == 240
BTRFS_QGROUP_INFO_KEY == 242
BTRFS_QGROUP_LIMIT_KEY == 244
BTRFS_QGROUP_RELATION_KEY == 246
BTRFS_TEMPORARY_ITEM_KEY == 248
BTRFS_DEV_STATS_KEY == 249
BTRFS_DEV_REPLACE_KEY == 250
BTRFS_UUID_KEY_SUBVOL == 251
BTRFS_UUID_KEY_RECEIVED_SUBVOL == 252

\* the tag the dispatch of TreeSearch::next decodes as a free-space header
FREE_SPACE_HEADER_TAG == 0

\* KeyType::try_from accepts exactly these values
KeyTypeValues ==
    {1, 12, 13, 24, 36, 37, 48, 60, 72, 84, 96, 108, 120, 128, 132, 144, 156,
     168, 169, 176, 178, 180, 182, 184, 192, 198, 199, 200, 204, 216, 228,
     240, 242, 244, 246, 248, 249, 250, 251, 252, 253}

KeyType_try_from(value) ==
    IF value \in KeyTypeValues THEN [ok |-> TRUE, type |-> value]
                               ELSE [ok |-> FALSE, type |-> value]

\* the arms of the dispatch that are todo!()
TodoKinds ==
    {BTRFS_CHUNK_ITEM_KEY, BTRFS_DEV_ITEM_KEY, BTRFS_DEV_EXTENT_KEY,
     BTRFS_DEV_STATS_KEY, BTRFS_DEV_REPLACE_KEY, BTRFS_BLOCK_GROUP_ITEM_KEY,
     BTRFS_EXTENT_ITEM_KEY, BTRFS_METADATA_ITEM_KEY, BTRFS_EXTENT_CSUM_KEY,
     BTRFS_FREE_SPACE_INFO_KEY, BTRFS_FREE_SPACE_EXTENT_KEY,
     BTRFS_FREE_SPACE_BITMAP_KEY, BTRFS_INODE_EXTREF_KEY,
     BTRFS_QGROUP_STATUS_KEY, BTRFS_QGROUP_INFO_KEY, BTRFS_QGROUP_LIMIT_KEY,
     BTRFS_QGROUP_RELATION_KEY, BTRFS_ORPHAN_ITEM_KEY, BTRFS_DIR_LOG_ITEM_KEY,
     BTRFS_TEMPORARY_ITEM_KEY, BTRFS_UUID_KEY_SUBVOL,
     BTRFS_UUID_KEY_RECEIVED_SUBVOL}

\* the arms of the dispatch that decode a record
DecodedKinds ==
    {BTRFS_ROOT_ITEM_KEY, BTRFS_ROOT_REF_KEY, BTRFS_INODE_ITEM_KEY,
     BTRFS_EXTENT_DATA_KEY, FREE_SPACE_HEADER_TAG, BTRFS_DIR_ITEM_KEY,
     BTRFS_DIR_INDEX_KEY, BTRFS_INODE_REF_KEY}

----------------------------------------------------------------------------
(* Sizes of the kernel structs the cursor reads (mem::size_of, packed) *)

HeaderSize == 32              \* btrfs_ioctl_search_header
RootItemSize == 439           \* btrfs_root_item
RootRefSize == 18             \* btrfs_root_ref
InodeItemSize == 160          \* btrfs_inode_item
FileExtentItemSize == 53      \* btrfs_file_extent_item
DirItemSize == 30             \* btrfs_dir_item
InodeRefSize == 10            \* btrfs_inode_ref
FreeSpaceHeaderSize == 41     \* btrfs_free_space_header
IOCTL_BUFF_SIZE == 65536      \* 2usize.pow(16)

\* offset of the inline data TreeSearch::next computes, relative to the item:
\* mem::size_of::<u64>() * 2 + 1
InlineDataOffset == 8 * 2 + 1

----------------------------------------------------------------------------
(* Sub-discriminants (btrfs_sys) *)

BTRFS_FT_REG_FILE == 1
BTRFS_FT_DIR == 2
BTRFS_FT_CHRDEV == 3
BTRFS_FT_BLKDEV == 4
BTRFS_FT_FIFO == 5
BTRFS_FT_SOCK == 6
BTRFS_FT_SYMLINK == 7
BTRFS_FT_XATTR == 8

BTRFS_FILE_EXTENT_INLINE == 0
BTRFS_FILE_EXTENT_REG == 1
BTRFS_FILE_EXTENT_PREALLOC == 2

BTRFS_COMPRESS_NONE == 0
BTRFS_COMPRESS_ZLIB == 1
BTRFS_COMPRESS_LZO == 2
BTRFS_COMPRESS_ZSTD == 3

BTRFS_ROOT_SUBVOL_RDONLY == 1

----------------------------------------------------------------------------
(* Record decode layer: item.rs.  A decode either yields a record value    *)
(* (field "variant" names the Item variant) or panics.                     *)

Panicked(why) == [variant |-> "panic", why |-> why]

IsPanic(item) == item.variant = "panic"

\* le::U64::new followed by get: new stores i as is (little-endian host) or
\* from_le_bytes(to_le_bytes(i)) (big-endian host), which is i again
le_U64(i) == i

DiskKey_from_c_struct(key) ==
    [objectid |-> le_U64(key.objectid), type |-> key.type,
     offset |-> le_U64(key.offset)]

Inode_from_c_struct(inode) ==
    [variant |-> "Inode",
     generation |-> le_U64(inode.generation),
     size |-> le_U64(inode.size),
     nlink |-> inode.nlink]

InodeRef_from_c_struct(inode_ref, data) ==
    [variant |-> "InodeRef", index |-> le_U64(inode_ref.index), name |-> data]

NanosPerSec == 1000000000

\* time::Duration::from_secs(t.sec) + time::Duration::from_nanos(t.nsec as u64):
\* the sum carries whole seconds out of the nanoseconds and panics when the
\* seconds overflow u64
Duration_of(t) ==
    IF t.sec + (t.nsec \div NanosPerSec) > MaxU64 THEN Panicked("duration")
    ELSE [variant |-> "Duration",
          secs |-> t.sec + (t.nsec \div NanosPerSec),
          nanos |-> t.nsec % NanosPerSec]

\* number of bits of a flags word (64 in the program)
FlagBits == 12

\* `v as u32` on a 64-bit word: the low half of its bits
as_u32(v) == v % 2^(FlagBits \div 2)

Root_from_c_struct(root) ==
    IF root.refs \notin {0, 1} THEN Panicked("unreachable")
    ELSE IF \E t \in {root.ctime, root.otime, root.rtime, root.stime} :
               IsPanic(Duration_of(t))
    THEN Panicked("duration")
    ELSE [variant |-> "Root",
          inode |-> Inode_from_c_struct(root.inode),
          generation |-> le_U64(root.generation),
          root_dirid |-> le_U64(root.root_dirid),
          bytenr |-> le_U64(root.bytenr),
          byte_limit |-> le_U64(root.byte_limit),
          bytes_used |-> le_U64(root.bytes_used),
          last_snapshot |-> le_U64(root.last_snapshot),
          read_only |-> (as_u32(root.flags) = BTRFS_ROOT_SUBVOL_RDONLY),
          refs |-> (root.refs = 1),
          btrfs_disk_key |-> DiskKey_from_c_struct(root.drop_progress),
          level |-> root.level,
          generation_v2 |-> le_U64(root.generation_v2),
          uuid |-> root.uuid,
          parent_uuid |-> root.uuid,
          received_uuid |-> root.received_uuid,
          ctransid |-> le_U64(root.ctransid),
          rtransid |-> le_U64(root.rtransid),
          stransid |-> le_U64(root.stransid),
          ctime |-> Duration_of(root.ctime),
          otime |-> Duration_of(root.otime),
          rtime |-> Duration_of(root.rtime),
          stime |-> Duration_of(root.stime)]

RootRef_from_c_struct(root_ref, data) ==
    [variant |-> "RootRef", dirid |-> le_U64(root_ref.dirid),
     sequence |-> le_U64(root_ref.sequence), name |-> data]

\* the inner match of DirItem::from_c_struct / DirIndex::from_c_struct
FileType_of(type) ==
    CASE type = BTRFS_FT_REG_FILE -> "Reg"
      [] type = BTRFS_FT_DIR -> "Dir"
      [] type = BTRFS_FT_CHRDEV -> "ChrDev"
      [] type = BTRFS_FT_BLKDEV -> "BlkDev"
      [] type = BTRFS_FT_FIFO -> "Fifo"
      [] type = BTRFS_FT_SYMLINK -> "Sym"
      [] OTHER -> "unreachable"

DirItem_from_c_struct(dir, data) ==
    IF dir.type = BTRFS_FT_XATTR
    THEN IF dir.name_len > Len(data) \/ dir.data_len > Len(data)
         THEN Panicked("slice")
         ELSE [variant |-> "DirItem", shape |-> "Xattr",
               location |-> DiskKey_from_c_struct(dir.location),
               transid |-> le_U64(dir.transid),
               name |-> SubSeq(data, 1, dir.name_len),
               value |-> SubSeq(data, dir.data_len + 1, Len(data))]
    ELSE IF FileType_of(dir.type) = "unreachable"
         THEN Panicked("unreachable")
         ELSE [variant |-> "DirItem", shape |-> "File",
               location |-> DiskKey_from_c_struct(dir.location),
               transid |-> le_U64(dir.transid),
               type |-> FileType_of(dir.type),
               name |-> data]

DirIndex_from_c_struct(dir, data) ==
    IF dir.type = BTRFS_FT_XATTR
    THEN IF dir.name_len > Len(data) \/ dir.data_len > Len(data)
         THEN Panicked("slice")
         ELSE [variant |-> "DirIndex", shape |-> "Xattr",
               location |-> DiskKey_from_c_struct(dir.location),
               transid |-> le_U64(dir.transid),
               name |-> SubSeq(data, 1, dir.name_len),
               value |-> SubSeq(data, dir.data_len + 1, Len(data))]
    ELSE IF FileType_of(dir.type) = "unreachable"
         THEN Panicked("unreachable")
         ELSE [variant |-> "DirIndex", shape |-> "File",
               location |-> DiskKey_from_c_struct(dir.location),
               transid |-> le_U64(dir.transid),
               type |-> FileType_of(dir.type),
               name |-> data]

\* a compression match that would take every unknown value as Compression::None
Compression_of_coerced(compression) ==
    CASE compression = BTRFS_COMPRESS_LZO -> "Lzo"
      [] compression = BTRFS_COMPRESS_ZLIB -> "Zlib"
      [] compression = BTRFS_COMPRESS_ZSTD -> "Zstd"
      [] OTHER -> "None"

\* the compression match of the two file-extent decoders
Compression_of(compression) ==
    CASE compression = BTRFS_COMPRESS_NONE -> "None"
      [] compression = BTRFS_COMPRESS_LZO -> "Lzo"
      [] compression = BTRFS_COMPRESS_ZLIB -> "Zlib"
      [] compression = BTRFS_COMPRESS_ZSTD -> "Zstd"
      [] OTHER -> "unreachable"

FileExtentReg_from_c_struct(item) ==
    IF Compression_of(item.compression) = "unreachable"
    THEN Panicked("unreachable")
    ELSE [variant |-> "FileExtentReg",
          generation |-> le_U64(item.generation),
          ram_bytes |-> le_U64(item.ram_bytes),
          compression |-> Compression_of(item.compression),
          disk_bytenr |-> le_U64(item.disk_bytenr),
          disk_num_bytes |-> le_U64(item.disk_num_bytes),
          offset |-> le_U64(item.offset),
          num_bytes |-> le_U64(item.num_bytes)]

FileExtentInline_from_c_struct_and_data(item, data) ==
    IF Compression_of(item.compression) = "unreachable"
    THEN Panicked("unreachable")
    ELSE [variant |-> "FileExtentInline",
          generation |-> le_U64(item.generation),
          ram_bytes |-> le_U64(item.ram_bytes),
          compression |-> Compression_of(item.compression),
          data |-> data]

FreeSpaceHeader_from_c_struct(free_space_header) ==
    [variant |-> "FreeSpaceHeader",
     location |-> DiskKey_from_c_struct(free_space_header.location),
     generation |-> le_U64(free_space_header.generation),
     num_entries |-> le_U64(free_space_header.num_entries),
     num_bitmaps |-> le_U64(free_space_header.num_bitmaps)]

\* bits of BlockGroupFlag (bitflags!, item.rs 155-170)
BTRFS_BLOCK_GROUP_DATA == 1
BTRFS_BLOCK_GROUP_SYSTEM == 2
BTRFS_BLOCK_GROUP_METADATA == 4
BTRFS_BLOCK_GROUP_RAID0 == 8
BTRFS_BLOCK_GROUP_RAID1 == 16
BTRFS_BLOCK_GROUP_DUP == 32
BTRFS_BLOCK_GROUP_RAID10 == 64
BTRFS_BLOCK_GROUP_RAID5 == 128
BTRFS_BLOCK_GROUP_RAID6 == 256

BlockGroupFlag_all ==
    {BTRFS_BLOCK_GROUP_DATA, BTRFS_BLOCK_GROUP_SYSTEM, BTRFS_BLOCK_GROUP_METADATA,
     BTRFS_BLOCK_GROUP_DUP, BTRFS_BLOCK_GROUP_RAID0, BTRFS_BLOCK_GROUP_RAID1,
     BTRFS_BLOCK_GROUP_RAID5, BTRFS_BLOCK_GROUP_RAID6, BTRFS_BLOCK_GROUP_RAID10}

\* the bits set in a flags word, each as its value 2^k
BitsOf(flags) == {2^k : k \in {j \in 0..(FlagBits - 1) : (flags \div 2^j) % 2 = 1}}

\* BlockGroupFlag::from_bits: None when a bit outside the flags is set
BlockGroupFlag_from_bits(flags) ==
    IF BitsOf(flags) \subseteq BlockGroupFlag_all
    THEN [some |-> TRUE, bits |-> BitsOf(flags)]
    ELSE [some |-> FALSE, bits |-> {}]

\* BlockGroup::from_c_struct: Ok(BlockGroup) or Err(())
BlockGroup_from_c_struct(block_group) ==
    LET flags == BlockGroupFlag_from_bits(block_group.flags) IN
    IF ~flags.some THEN [variant |-> "Err"]
    ELSE [variant |-> "BlockGroup",
          used |-> le_U64(block_group.used),
          chunk_objectid |-> le_U64(block_group.chunk_objectid),
          flags |-> flags.bits]

----------------------------------------------------------------------------
(* Endian wrappers: le.rs.  A number is an integer; its bytes are its digits *)
(* to the base ByteRadix (256 in the program).                              *)

ByteRadix == 4
U64Bytes == 8
U8Bytes == 1

\* u64::to_le_bytes / u8::to_le_bytes: least significant byte first
to_le_bytes(i, n) == [k \in 1..n |-> (i \div ByteRadix^(k - 1)) % ByteRadix]

\* u64::from_le_bytes / u8::from_le_bytes
RECURSIVE from_le_bytes(_)
from_le_bytes(b) ==
    IF b = <<>> THEN 0 ELSE Head(b) + ByteRadix * from_le_bytes(Tail(b))

\* U64::new with byte swapping on a big-endian host
U64_new_swapped(host, i) ==
    IF host = "little" THEN i
    ELSE LET b == to_le_bytes(i, U64Bytes)
         IN from_le_bytes([k \in 1..U64Bytes |-> b[U64Bytes + 1 - k]])

\* U64::new; host is cfg!(target_endian)
U64_new(host, i) ==
    IF host = "little" THEN i
    ELSE from_le_bytes(to_le_bytes(i, U64Bytes))

U64_get(self) == self

U8_new(host, i) ==
    IF host = "little" THEN i
    ELSE from_le_bytes(to_le_bytes(i, U8Bytes))

U8_get(self) == self

----------------------------------------------------------------------------
(* Records of the tree and their layout in the buffer *)

\* a tree record: key (objectid, type, offset), transid, payload length,
\* the item struct (body) and the bytes that trail it (data)
Rec(objectid, type, offset, transid, len, body, data) ==
    [objectid |-> objectid, type |-> type, offset |-> offset,
     transid |-> transid, len |-> len, body |-> body, data |-> data]

\* btrfs_ioctl_search_header of a record
HeaderOf(r) ==
    [transid |-> r.transid, objectid |-> r.objectid, offset |-> r.offset,
     type_ |-> r.type, len |-> r.len]

\* the header read from a region of the buffer never written ([0; SIZE])
ZeroHeader == [transid |-> 0, objectid |-> 0, offset |-> 0, type_ |-> 0, len |-> 0]

RecSize(r) == HeaderSize + r.len

RECURSIVE PageSize(_)
PageSize(page) ==
    IF page = <<>> THEN 0 ELSE RecSize(Head(page)) + PageSize(Tail(page))

\* byte offset of the i-th record of a page
RecStart(page, i) == PageSize(SubSeq(page, 1, i - 1))

\* the pages still visible at byte offset x: those longer than x
VisibleAt(buf, x) == SelectSeq(buf, LAMBDA pg : PageSize(pg) > x)

\* what a read of a record header at byte offset x finds:
\*   "record": x is the start of record rec of the newest page covering x,
\*   "zero":   no page ever reached x, the buffer is still zero there,
\*   "stale":  x falls inside a record of an older, longer page
ReadAt(buf, x) ==
    LET vis == VisibleAt(buf, x) IN
    IF vis = <<>> THEN [what |-> "zero", idx |-> 0, page |-> <<>>]
    ELSE LET pg == Head(vis)
             hits == {i \in 1..Len(pg) : RecStart(pg, i) = x} IN
         IF hits = {} THEN [what |-> "stale", idx |-> 0, page |-> pg]
         ELSE [what |-> "record", idx |-> CHOOSE i \in hits : TRUE, page |-> pg]

\* size of the item struct the dispatch reads for a kind (0: none is read)
StructSize(type) ==
    CASE type = BTRFS_ROOT_ITEM_KEY -> RootItemSize
      [] type = BTRFS_ROOT_REF_KEY -> RootRefSize
      [] type = BTRFS_INODE_ITEM_KEY -> InodeItemSize
      [] type = BTRFS_EXTENT_DATA_KEY -> FileExtentItemSize
      [] type = FREE_SPACE_HEADER_TAG -> FreeSpaceHeaderSize
      [] type \in {BTRFS_DIR_ITEM_KEY, BTRFS_DIR_INDEX_KEY} -> DirItemSize
      [] type = BTRFS_INODE_REF_KEY -> InodeRefSize
      [] OTHER -> 0

\* the fixed prefix of btrfs_file_extent_item that an inline extent's data
\* follows: generation, ram_bytes, compression, encryption, other_encoding, type
FileExtentPrefixSize == 21

\* where the trailing bytes of a record start, relative to its item: the
\* payload is the fixed part followed by the trailing bytes
DataStart(r) == r.len - Len(r.data)

\* the byte at offset d of a record (header included): a trailing byte is
\* its value (0..255); a byte of the header or of the item struct is
\* -(d + 1), which names its place
RecByte(r, d) ==
    IF d >= HeaderSize + DataStart(r) /\ d - HeaderSize - DataStart(r) < Len(r.data)
    THEN r.data[d - HeaderSize - DataStart(r) + 1]
    ELSE -(d + 1)

\* the byte read at offset x from the start of the buffer.  A byte at or
\* beyond IOCTL_BUFF_SIZE is not the buffer's: it is -(x + 1), which names
\* its place in the memory that follows the buffer
ByteAt(buf, x) ==
    LET vis == VisibleAt(buf, x) IN
    IF x >= IOCTL_BUFF_SIZE THEN -(x + 1)
    ELSE IF vis = <<>> THEN 0
    ELSE LET pg == Head(vis)
             i == CHOOSE j \in 1..Len(pg) :
                      RecStart(pg, j) <= x /\ x < RecStart(pg, j) + RecSize(pg[j])
         IN RecByte(pg[i], x - RecStart(pg, i))

\* slice::from_raw_parts(buffer[off..].as_ptr(), n)
ReadBytes(buf, off, n) == [k \in 1..n |-> ByteAt(buf, off + k - 1)]

\* the kernel writes a page at offset 0; older pages stay visible beyond it
WritePage(buf, page) ==
    IF page = <<>> THEN buf
    ELSE <<page>> \o SelectSeq(buf, LAMBDA pg : PageSize(pg) > PageSize(page))

----------------------------------------------------------------------------
(* The page-request primitive, BTRFS_IOC_TREE_SEARCH_V2 *)

KeyOf(r) == [objectid |-> r.objectid, type |-> r.type, offset |-> r.offset]

\* (objectid, kind, offset) lexicographic order
KeyLess(a, b) ==
    \/ a.objectid < b.objectid
    \/ a.objectid = b.objectid /\ a.type < b.type
    \/ a.objectid = b.objectid /\ a.type = b.type /\ a.offset < b.offset

InFilter(r, key) ==
    /\ key.min_objectid <= r.objectid /\ r.objectid <= key.max_objectid
    /\ key.min_offset <= r.offset /\ r.offset <= key.max_offset
    /\ key.min_transid <= r.transid /\ r.transid <= key.max_transid
    /\ key.min_type <= r.type /\ r.type <= key.max_type

Matching(t, key) == {r \in t : InFilter(r, key)}

RECURSIVE SortByKey(_)
SortByKey(S) ==
    IF S = {} THEN <<>>
    ELSE LET m == CHOOSE r \in S : \A q \in S \ {r} : KeyLess(KeyOf(r), KeyOf(q))
         IN <<m>> \o SortByKey(S \ {m})

Min(a, b) == IF a <= b THEN a ELSE b

\* the records a successful call places in the buffer: the first ones, in
\* ascending key order, of those within the filters; at most c, and at most
\* key.nr_items
btrfs_tree_search(t, key, c) ==
    LET all == SortByKey(Matching(t, key))
    IN SubSeq(all, 1, Min(Len(all), Min(c, key.nr_items)))

----------------------------------------------------------------------------
(* The cursor: tree_search.rs *)

BTRFS_FS_TREE_OBJECTID == 5

Tree_into_u64(t) ==
    CASE t = "Auto" -> 0
      [] t = "Fs" -> BTRFS_FS_TREE_OBJECTID
      [] OTHER -> t

Range(start, end) == [start |-> start, end |-> end]

TreeSearchArgs_new(tree_id, objectids, offsets, transids, types, items) ==
    [tree_id |-> tree_id,
     min_objectid |-> objectids.start, max_objectid |-> objectids.end,
     min_offset |-> offsets.start, max_offset |-> offsets.end,
     min_transid |-> transids.start, max_transid |-> transids.end,
     min_type |-> types.start, max_type |-> types.end,
     nr_items |-> items]

\* a constructor that would start the descriptor with one record pending:
\* the alternative against which the first-pull properties are sensitive
TreeSearch_new_items1(t, objectids, offsets, transids, types) ==
    [args |-> TreeSearchArgs_new(Tree_into_u64(t), objectids, offsets,
                                 transids, types, 1),
     bp |-> 0]

\* TreeSearch::new: the descriptor, and bp = 0
TreeSearch_new(t, objectids, offsets, transids, types) ==
    [args |-> TreeSearchArgs_new(Tree_into_u64(t), objectids, offsets,
                                 transids, types, 0),
     bp |-> 0]

\* header.objectid + 1 and header.offset + 1 on u64
AddOne(v) == (v + 1) % (MaxU64 + 1)

\* the all-zero record a header read finds in a region never written
ZeroRec ==
    Rec(0, 0, 0, 0, 0,
        [location |-> [objectid |-> 0, type |-> 0, offset |-> 0],
         generation |-> 0, num_entries |-> 0, num_bitmaps |-> 0], <<>>)

\* a dispatch that would take only the regular extent type as out-of-line
ExtentIsOutOfLine_regonly(type) == type = BTRFS_FILE_EXTENT_REG

\* BTRFS_FILE_EXTENT_REG | BTRFS_FILE_EXTENT_PREALLOC
ExtentIsOutOfLine(type) ==
    type \in {BTRFS_FILE_EXTENT_REG, BTRFS_FILE_EXTENT_PREALLOC}

\* the match on header.type_ of TreeSearch::next, for the record r whose
\* header was read at byte offset p of the buffer
Dispatch(buf, p, header, r) ==
    CASE header.type_ = BTRFS_ROOT_ITEM_KEY -> Root_from_c_struct(r.body)
      [] header.type_ = BTRFS_ROOT_REF_KEY ->
            RootRef_from_c_struct(r.body,
                ReadBytes(buf, p + HeaderSize + RootRefSize, r.body.name_len))
      [] header.type_ = BTRFS_INODE_ITEM_KEY -> Inode_from_c_struct(r.body)
      [] header.type_ = BTRFS_EXTENT_DATA_KEY ->
            (CASE ExtentIsOutOfLine(r.body.type) ->
                    FileExtentReg_from_c_struct(r.body)
               [] ~ExtentIsOutOfLine(r.body.type)
                    /\ r.body.type = BTRFS_FILE_EXTENT_INLINE ->
                    FileExtentInline_from_c_struct_and_data(r.body,
                        ReadBytes(buf, p + HeaderSize + InlineDataOffset, header.len))
               [] OTHER -> Panicked("unreachable"))
      [] header.type_ = FREE_SPACE_HEADER_TAG -> FreeSpaceHeader_from_c_struct(r.body)
      [] header.type_ = BTRFS_DIR_ITEM_KEY ->
            DirItem_from_c_struct(r.body,
                ReadBytes(buf, p + HeaderSize + DirItemSize, r.body.name_len))
      [] header.type_ = BTRFS_DIR_INDEX_KEY ->
            DirIndex_from_c_struct(r.body,
                ReadBytes(buf, p + HeaderSize + DirItemSize, r.body.name_len))
      [] header.type_ = BTRFS_INODE_REF_KEY ->
            InodeRef_from_c_struct(r.body,
                ReadBytes(buf, p + HeaderSize + InodeRefSize, r.body.name_len))
      [] header.type_ \in TodoKinds -> Panicked("todo")
      [] OTHER -> Panicked("unreachable")

\* one past the last byte offset the pull reads when it reads a header at
\* offset p: the header, then (for a tag KeyType accepts) the item struct of
\* the arm and the trailing bytes the arm takes with slice::from_raw_parts.
\* None of these reads is checked against the length of the buffer
ReadEnd(buf, p) ==
    LET rd == ReadAt(buf, p)
        r == IF rd.what = "record" THEN rd.page[rd.idx] ELSE ZeroRec
        item == p + HeaderSize
    IN  IF rd.what = "stale" \/ ~KeyType_try_from(r.type).ok THEN item
        ELSE CASE r.type = BTRFS_ROOT_REF_KEY -> item + RootRefSize + r.body.name_len
               [] r.type \in {BTRFS_DIR_ITEM_KEY, BTRFS_DIR_INDEX_KEY} ->
                     item + DirItemSize + r.body.name_len
               [] r.type = BTRFS_INODE_REF_KEY -> item + InodeRefSize + r.body.name_len
               [] r.type = BTRFS_EXTENT_DATA_KEY ->
                     IF r.body.type = BTRFS_FILE_EXTENT_INLINE
                           /\ InlineDataOffset + r.len > FileExtentItemSize
                     THEN item + InlineDataOffset + r.len
                     ELSE item + FileExtentItemSize
               [] OTHER -> item + StructSize(r.type)

\* a pull that would also narrow the objectid filter from above, to the lower
\* bound it leaves: the alternative against which the frame is sensitive
Outcome_narrowed(a, p, res, why, out) ==
    [args |-> [a EXCEPT !.max_objectid = a.min_objectid], bp |-> p,
     result |-> res, panic |-> why, out |-> out]

\* the outcome of a pull: the cursor it leaves, what it returns, what it emits
Outcome(a, p, res, why, out) ==
    [args |-> a, bp |-> p, result |-> res, panic |-> why, out |-> out]

\* a pull that would step over a record of unknown kind instead of stopping:
\* the alternative against which the hard-error property is sensitive
UnknownKind_skipped(a, p, header) ==
    Outcome([a EXCEPT !.min_objectid = AddOne(header.objectid),
                      !.min_offset = AddOne(header.offset),
                      !.min_type = header.type_ + 1,
                      !.nr_items = a.nr_items - 1],
            p + HeaderSize + header.len, "Ok", "none", <<>>)

\* KeyType::try_from(header.type_).unwrap() on a tag outside the vocabulary:
\* the pull panics where it stands
UnknownKind(a, p, header) == Outcome(a, p, "panic", "unwrap", <<>>)

\* TreeSearch::next from the header read on (lines 288-464), on descriptor a,
\* buffer buf and offset p.  A read that reaches beyond the buffer is
\* undefined behaviour; ub is what the build makes of it: "fault" (the
\* process is killed at the read) or "read" (the read returns what the
\* memory after the buffer holds; a header read there is no record header)
Drain(a, buf, p, prof, ub) ==
    LET rd == ReadAt(buf, p) IN
    IF p > IOCTL_BUFF_SIZE THEN Outcome(a, p, "panic", "slice", <<>>)
    ELSE IF ReadEnd(buf, p) > IOCTL_BUFF_SIZE /\ ub = "fault"
    THEN Outcome(a, p, "fault", "none", <<>>)
    ELSE IF p + HeaderSize > IOCTL_BUFF_SIZE \/ rd.what = "stale"
    THEN Outcome(a, p, "stale", "none", <<>>)
    ELSE
    LET r == IF rd.what = "record" THEN rd.page[rd.idx] ELSE ZeroRec
        header == HeaderOf(r)
        kt == KeyType_try_from(header.type_)
        key == [objectid |-> header.objectid, type |-> kt.type,
                offset |-> header.offset]
        item == Dispatch(buf, p, header, r)
        p2 == p + HeaderSize + header.len
        a1 == [a EXCEPT !.min_objectid = AddOne(header.objectid)]
        a2 == [a1 EXCEPT !.min_offset = AddOne(header.offset)]
        a3 == [a2 EXCEPT !.min_type = header.type_ + 1,
                         !.nr_items = a.nr_items - 1]
    IN  CASE ~kt.ok -> UnknownKind(a, p, header)
          [] kt.ok /\ IsPanic(item) -> Outcome(a, p, "panic", item.why, <<>>)
          [] kt.ok /\ ~IsPanic(item) /\ prof = "debug" /\ header.objectid = MaxU64 ->
                Outcome(a, p2, "panic", "overflow", <<>>)
          [] kt.ok /\ ~IsPanic(item) /\ prof = "debug" /\ header.objectid # MaxU64
                   /\ header.offset = MaxU64 ->
                Outcome(a1, p2, "panic", "overflow", <<>>)
          [] OTHER -> Outcome(a3, p2, "Ok", "none", <<[key |-> key, item |-> item]>>)

\* a pull that would issue a page request every time:
\* the alternative against which the one-request property is sensitive
RequestNeeded_always(a) == a.nr_items >= 0

\* if self.args.key.nr_items == 0
RequestNeeded(a) == a.nr_items = 0

\* TreeSearch::next up to the header read (lines 268-286), then Drain.
\* ok: whether the page request, if one is issued, succeeds
NextOutcome(a, buf, p, t, c, prof, ok, ub) ==
    IF RequestNeeded(a)
    THEN LET a1 == [a EXCEPT !.nr_items = NrItemsMax]
             page == btrfs_tree_search(t, a1, c)
             a2 == [a1 EXCEPT !.nr_items = Len(page)]
             buf2 == WritePage(buf, page)
         IN  IF ~ok THEN [o |-> Outcome(a1, 0, "Err", "none", <<>>),
                          buffer |-> buf, reqs |-> 1]
             ELSE IF a2.nr_items = 0
                  THEN [o |-> Outcome(a2, 0, "None", "none", <<>>),
                        buffer |-> buf2, reqs |-> 1]
                  ELSE [o |-> Drain(a2, buf2, 0, prof, ub), buffer |-> buf2, reqs |-> 1]
    ELSE [o |-> Drain(a, buf, p, prof, ub), buffer |-> buf, reqs |-> 0]

\* what the build may make of undefined behaviour
UBOutcomes == {"read", "fault"}

TreeSearch_next ==
    /\ result \notin {"panic", "stale", "fault"}
    /\ pulls < MaxPulls
    /\ \E ok \in {TRUE} \cup (IF RequestNeeded(args) /\ fails < MaxFails
                              THEN {FALSE} ELSE {}),
          ub \in UBOutcomes :
         LET n == NextOutcome(args, buffer, bp, tree, cap, profile, ok, ub) IN
         /\ ub = "fault" => n.o.result = "fault"
         /\ args' = n.o.args
         /\ bp' = n.o.bp
         /\ buffer' = n.buffer
         /\ result' = n.o.result
         /\ panic' = n.o.panic
         /\ emitted' = emitted \o n.o.out
         /\ reqs' = n.reqs
         /\ requests' = requests + n.reqs
         /\ fails' = IF n.o.result = "Err" THEN fails + 1 ELSE fails
    /\ pulls' = pulls + 1
    /\ UNCHANGED <<tree, cap, profile, args0, search, pureVars, liVars, pairVars>>

----------------------------------------------------------------------------
(* Inputs: trees, search specifications, page caps *)

MaxBlob == 2
MaxType == 255

InodeBody == [generation |-> 1, size |-> 2, nlink |-> 1]

\* name and value bytes of a trailing region: n bytes 101.., then m bytes 201..
Blob(n, m) == [k \in 1..(n + m) |-> IF k <= n THEN 100 + k ELSE 200 + (k - n)]

InodeRec(o, f) == Rec(o, BTRFS_INODE_ITEM_KEY, f, 1, InodeItemSize, InodeBody, <<>>)

InodeRefRec(o, f, n) ==
    Rec(o, BTRFS_INODE_REF_KEY, f, 1, InodeRefSize + n,
        [index |-> 2, name_len |-> n], Blob(n, 0))

\* the values of a 64-bit key field the trees are built from
U64Sample == {0, 1, MaxU64}

\* records of the trees that exercise paging: two decodable kinds
PagingRecs ==
    {InodeRec(o, f) : o \in U64Sample, f \in U64Sample}
    \cup {InodeRefRec(o, f, 2) : o \in U64Sample, f \in U64Sample}

RECURSIVE TreesUpTo(_)
TreesUpTo(n) ==
    IF n = 0 THEN {{}}
    ELSE LET T == TreesUpTo(n - 1) IN T \cup {t \cup {r} : t \in T, r \in PagingRecs}

FullSearch ==
    [objectids |-> Range(0, MaxU64), offsets |-> Range(0, MaxU64),
     transids |-> Range(0, MaxU64), types |-> Range(0, MaxType)]

SearchSpecs ==
    {FullSearch,
     [FullSearch EXCEPT !.objectids = Range(1, MaxU64)],
     [FullSearch EXCEPT !.offsets = Range(0, 1)],
     [FullSearch EXCEPT !.types = Range(BTRFS_INODE_REF_KEY, BTRFS_DIR_ITEM_KEY)],
     [FullSearch EXCEPT !.transids = Range(0, 0)]}

PagingInputs ==
    [tree : TreesUpTo(MaxRecs), search : SearchSpecs, cap : 1..MaxRecs]

\* records of the trees that exercise the dispatch: one record per tree
OpaqueRec(type) == Rec(1, type, 0, 1, 8, [opaque |-> TRUE], <<>>)

DiskKeyBody == [objectid |-> 1, type |-> BTRFS_INODE_ITEM_KEY, offset |-> 0]

\* btrfs_timespec
Timespec(sec, nsec) == [sec |-> sec, nsec |-> nsec]

\* a root item with the given flags, reference count and change time
RootRecAt(flags, refs, ctime) ==
    Rec(1, BTRFS_ROOT_ITEM_KEY, 0, 1, RootItemSize,
        [inode |-> InodeBody, generation |-> 1, root_dirid |-> 2, bytenr |-> 3,
         byte_limit |-> 0, bytes_used |-> 1, last_snapshot |-> 2,
         flags |-> flags, refs |-> refs, drop_progress |-> DiskKeyBody,
         level |-> 0, generation_v2 |-> 1,
         uuid |-> 11, parent_uuid |-> 12, received_uuid |-> 13,
         ctransid |-> 1, rtransid |-> 2, stransid |-> 3,
         ctime |-> ctime, otime |-> Timespec(1, 2), rtime |-> Timespec(2, 3),
         stime |-> Timespec(3, 4)], <<>>)

RootRec(flags, refs) == RootRecAt(flags, refs, Timespec(0, 1))

RootRefRec(n) ==
    Rec(1, BTRFS_ROOT_REF_KEY, 0, 1, RootRefSize + n,
        [dirid |-> 1, sequence |-> 2, name_len |-> n], Blob(n, 0))

FileExtentRec(type, compression, data) ==
    Rec(1, BTRFS_EXTENT_DATA_KEY, 0, 1,
        IF type = BTRFS_FILE_EXTENT_INLINE THEN FileExtentPrefixSize + Len(data)
                                           ELSE FileExtentItemSize,
        [generation |-> 1, ram_bytes |-> 2, compression |-> compression,
         type |-> type, disk_bytenr |-> 3, disk_num_bytes |-> 1, offset |-> 0,
         num_bytes |-> 1], data)

DirRec(kind, type, n, m) ==
    Rec(1, kind, 0, 1, DirItemSize + n + m,
        [location |-> DiskKeyBody, transid |-> 1, data_len |-> m,
         name_len |-> n, type |-> type], Blob(n, m))

FreeSpaceHeaderRec ==
    Rec(1, FREE_SPACE_HEADER_TAG, 0, 1, FreeSpaceHeaderSize,
        [location |-> DiskKeyBody, generation |-> 1, num_entries |-> 1,
         num_bitmaps |-> 0], <<>>)

\* a tag outside the vocabulary of KeyType
UnknownTags == {2, 254}

\* flags words of the root items: the read-only bit with and without another
\* bit of the low half, and with and without a bit of the high half
RootFlagSample == 0..3 \cup {2^(FlagBits \div 2), 2^(FlagBits \div 2) + 1}

DecodeRecs ==
    {OpaqueRec(t) : t \in (KeyTypeValues \ DecodedKinds) \cup UnknownTags}
    \cup {RootRec(flags, refs) : flags \in RootFlagSample, refs \in 0..2}
    \cup {RootRecAt(0, 1, Timespec(sec, nsec)) :
            sec \in {0, MaxU64}, nsec \in {0, NanosPerSec - 1, NanosPerSec}}
    \cup {RootRefRec(n) : n \in 0..MaxBlob}
    \cup {InodeRec(1, 0), FreeSpaceHeaderRec}
    \cup {InodeRefRec(1, 0, n) : n \in 0..MaxBlob}
    \cup {FileExtentRec(t, c, Blob(0, n)) : t \in 0..3, c \in 0..4, n \in {0, MaxBlob}}
    \cup {DirRec(k, BTRFS_FT_XATTR, n, m) :
            k \in {BTRFS_DIR_ITEM_KEY, BTRFS_DIR_INDEX_KEY},
            n \in 0..MaxBlob, m \in 0..MaxBlob}
    \cup {DirRec(k, t, n, 0) :
            k \in {BTRFS_DIR_ITEM_KEY, BTRFS_DIR_INDEX_KEY},
            t \in 0..9 \ {BTRFS_FT_XATTR}, n \in 1..MaxBlob}

DecodeInputs == [tree : {{r} : r \in DecodeRecs}, search : {FullSearch}, cap : {1}]

\* the same records as the second record of a page
MixedInputs ==
    [tree : {{InodeRec(0, 0), r} : r \in DecodeRecs}, search : {FullSearch},
     cap : 1..2]

\* the bytes the buffer has left after a page, in the trees below
BoundarySlack == {0, 12, 40}

\* an inode-reference item that holds several references: the first, of name
\* length n, and rest bytes of further references after it
InodeRefsRec(o, f, n, rest) ==
    Rec(o, BTRFS_INODE_REF_KEY, f, 1, InodeRefSize + n + rest,
        [index |-> 2, name_len |-> n], Blob(n, rest))

\* a page that ends slack bytes before the end of the buffer: an inode, its
\* references, and a short inline extent as the last record
BoundaryTree(slack) ==
    {InodeRec(1, 0),
     InodeRefsRec(1, 0, MaxBlob,
                  IOCTL_BUFF_SIZE - slack
                    - (HeaderSize + InodeItemSize)
                    - (HeaderSize + InodeRefSize + MaxBlob)
                    - (HeaderSize + FileExtentPrefixSize + MaxBlob)),
     FileExtentRec(BTRFS_FILE_EXTENT_INLINE, BTRFS_COMPRESS_NONE, Blob(0, MaxBlob))}

BoundaryInputs ==
    [tree : {BoundaryTree(slack) : slack \in BoundarySlack}, search : {FullSearch},
     cap : {MaxRecs + 1}]

Inputs == PagingInputs \cup DecodeInputs \cup MixedInputs \cup BoundaryInputs

----------------------------------------------------------------------------
(* The specification *)

----------------------------------------------------------------------------
(* The physical-address resolution cursor: logical_ino.rs *)

MaxRefs == 2
MaxLiPulls == 8

\* Option<Container>: None, or Some(container) with the count and the words
\* of buff the primitive filled; the words beyond them are zero
Container_default == [some |-> TRUE, elem_cnt |-> 0, elem_missed |-> 0, buff |-> <<>>]

None_container == [some |-> FALSE, elem_cnt |-> 0, elem_missed |-> 0, buff |-> <<>>]

RECURSIVE Flatten(_)
Flatten(triples) ==
    IF triples = <<>> THEN <<>> ELSE Head(triples) \o Flatten(Tail(triples))

\* BTRFS_IOC_LOGICAL_INO into a zeroed container: the first c triples that
\* reference the address, flat; elem_cnt counts them in units of unit words
btrfs_logical_ino(refs, c, unit) ==
    LET n == Min(c, Len(refs)) IN
    [some |-> TRUE, elem_cnt |-> (3 \div unit) * n,
     elem_missed |-> (3 \div unit) * (Len(refs) - n),
     buff |-> Flatten(SubSeq(refs, 1, n))]

\* container.buff[i]
BuffAt(container, i) ==
    IF i < Len(container.buff) THEN container.buff[i + 1] ELSE 0

LogicalIno_new(bytenr) == [bytenr |-> bytenr, container |-> None_container, bp |-> 0]

\* a failed request that would leave the container it was given in the cursor
LogicalIno_failed_stored(self, container) == [self EXCEPT !.container = container]

\* Err(e) => return Some(Err(e)): the cursor is as it was
LogicalIno_failed(self, container) == self

\* LogicalIno::next on cursor self; ok: whether the page request, if one is
\* issued, succeeds.  The cursor it leaves, what it returns, what it emits
LogicalIno_outcome(self, refs, c, unit, ok) ==
    LET request == ~self.container.some
        s1 == IF request THEN [self EXCEPT !.container = btrfs_logical_ino(refs, c, unit)]
                         ELSE self
        container == s1.container
    IN  IF request /\ ~ok
        THEN [self |-> LogicalIno_failed(self, Container_default),
              result |-> "Err", out |-> <<>>, reqs |-> 1]
        ELSE IF container.elem_cnt > 0
        THEN IF self.bp + 2 >= IOCTL_BUFF_SIZE
             THEN [self |-> s1, result |-> "panic", out |-> <<>>,
                   reqs |-> IF request THEN 1 ELSE 0]
             ELSE [self |-> [s1 EXCEPT !.container.elem_cnt = container.elem_cnt - 1,
                                       !.bp = self.bp + 3],
                   result |-> "Ok",
                   out |-> << <<BuffAt(container, self.bp),
                                BuffAt(container, self.bp + 1),
                                BuffAt(container, self.bp + 2)>> >>,
                   reqs |-> IF request THEN 1 ELSE 0]
        ELSE [self |-> s1, result |-> "None", out |-> <<>>,
              reqs |-> IF request THEN 1 ELSE 0]

LogicalIno_next ==
    /\ li_result # "panic"
    /\ li_pulls < MaxLiPulls
    /\ \E ok \in {TRUE} \cup (IF ~li.container.some /\ li_fails < MaxFails
                              THEN {FALSE} ELSE {}) :
         LET n == LogicalIno_outcome(li, inodes, li_cap, li_unit, ok) IN
         /\ li' = n.self
         /\ li_result' = n.result
         /\ li_emitted' = li_emitted \o n.out
         /\ li_reqs' = n.reqs
         /\ li_requests' = li_requests + n.reqs
         /\ li_fails' = IF n.result = "Err" THEN li_fails + 1 ELSE li_fails
    /\ li_pulls' = li_pulls + 1
    /\ UNCHANGED <<inodes, li_cap, li_unit, tsVars, pureVars, pairVars>>

\* the triples the references are drawn from
RefSample == {<<1, 0, 5>>, <<2, 1, 5>>, <<3, 0, 6>>}

RECURSIVE RefsUpTo(_)
RefsUpTo(n) ==
    IF n = 0 THEN {<<>>}
    ELSE LET R == RefsUpTo(n - 1)
         IN R \cup {Append(r, t) : r \in R, t \in RefSample}

InitLogicalIno(refs, c, unit) ==
    /\ inodes = refs /\ li_cap = c /\ li_unit = unit
    /\ li = LogicalIno_new(1)
    /\ li_result = "init" /\ li_emitted = <<>>
    /\ li_requests = 0 /\ li_reqs = 0 /\ li_fails = 0 /\ li_pulls = 0

\* the cursor constructed over no reference and never pulled
LogicalInoIdle == InitLogicalIno(<<>>, 1, 1)

----------------------------------------------------------------------------
(* Two cursors over the same handle.  struct TreeSearch owns its descriptor *)
(* (the buffer included) and its buffer offset by value and borrows the    *)
(* Subvolume; the page-request primitive keeps no state between calls.     *)

MaxPairPulls == 4

CursorIds == {"A", "B"}

\* a cursor as TreeSearch::new leaves it; oks records, pull by pull, whether
\* the page request of the pull (if it issued one) succeeded and what the
\* build made of undefined behaviour
Cursor_new(s) ==
    LET ts == TreeSearch_new("Fs", s.objectids, s.offsets, s.transids, s.types) IN
    [search |-> s, args |-> ts.args, bp |-> ts.bp, buffer |-> <<>>,
     result |-> "init", emitted |-> <<>>, fails |-> 0, pulls |-> 0, oks |-> <<>>]

\* TreeSearch::next on the cursor cur
Cursor_next(cur, t, c, prof, ok) ==
    LET n == NextOutcome(cur.args, cur.buffer, cur.bp, t, c, prof, ok[1], ok[2]) IN
    [cur EXCEPT !.args = n.o.args, !.bp = n.o.bp, !.buffer = n.buffer,
                !.result = n.o.result, !.emitted = @ \o n.o.out,
                !.fails = IF n.o.result = "Err" THEN @ + 1 ELSE @,
                !.pulls = @ + 1, !.oks = Append(@, ok)]

\* two cursors that would share one buffer: a pull on one replaces the
\* buffer of the other
OtherCursor_shared_buffer(other, pulled) == [other EXCEPT !.buffer = pulled.buffer]

\* what a pull that left the pulled cursor as `pulled` does to another cursor
OtherCursor(other, pulled) == other

\* a pull on cursor id
Pair_next(id) ==
    /\ cursors[id].result \notin {"panic", "stale", "fault"}
    /\ cursors[id].pulls < MaxPairPulls
    /\ \E ok \in {TRUE} \cup (IF RequestNeeded(cursors[id].args)
                                   /\ cursors[id].fails < MaxFails
                              THEN {FALSE} ELSE {}),
          ub \in UBOutcomes :
         \E pulled \in {Cursor_next(cursors[id], tree, cap, profile, <<ok, ub>>)} :
         /\ ub = "fault" => pulled.result = "fault"
         /\ cursors' = [d \in CursorIds |->
                          IF d = id THEN pulled ELSE OtherCursor(cursors[d], pulled)]
    /\ UNCHANGED <<tsVars, pureVars, liVars>>

\* two cursors constructed and never pulled
PairIdle == cursors = [d \in CursorIds |-> Cursor_new(FullSearch)]

\* no pure call is under way
PureIdle ==
    /\ call = [fn |-> "none"]
    /\ ret = [variant |-> "none"]

InitFrom(inputs) ==
    /\ \E in \in inputs :
         /\ tree = in.tree
         /\ cap = in.cap
         /\ search = in.search
         /\ args0 = TreeSearch_new("Fs", in.search.objectids, in.search.offsets,
                                   in.search.transids, in.search.types).args
    /\ profile \in {"debug", "release"}
    /\ args = args0
    /\ bp = 0
    /\ buffer = <<>>
    /\ result = "init"
    /\ panic = "none"
    /\ emitted = <<>>
    /\ requests = 0
    /\ reqs = 0
    /\ fails = 0
    /\ pulls = 0
    /\ PureIdle
    /\ LogicalInoIdle
    /\ PairIdle

Init == InitFrom(Inputs)

Next == TreeSearch_next

Spec == Init /\ [][Next]_vars

----------------------------------------------------------------------------
(* The decoders and the endian wrappers applied on their own: one call, *)
(* drawn from the inputs below, and its return value                    *)

\* records whose decode dispatches on a sub-discriminant of the item
SubDiscriminantRecs ==
    {r \in DecodeRecs :
        r.type \in {BTRFS_EXTENT_DATA_KEY, BTRFS_DIR_ITEM_KEY, BTRFS_DIR_INDEX_KEY}}

FlagSample == {0, 1, 2, 4, 9, 36, 511, 512, 513, 1024, 2048, 2^FlagBits - 1}

BlockGroupBody(flags) == [used |-> 1, chunk_objectid |-> 2, flags |-> flags]

\* the byte values the sampled numbers are made of
ByteSample == {0, 1, ByteRadix - 1}

Hosts == {"little", "big"}

PureCalls ==
    {[fn |-> "dispatch", rec |-> r] : r \in SubDiscriminantRecs}
    \cup {[fn |-> "BlockGroup::from_c_struct", block_group |-> BlockGroupBody(f)] :
             f \in FlagSample}
    \cup {[fn |-> "U64::new", host |-> h, i |-> from_le_bytes(b)] :
             h \in Hosts, b \in [1..U64Bytes -> ByteSample]}
    \cup {[fn |-> "U8::new", host |-> h, i |-> i] :
             h \in Hosts, i \in 0..(ByteRadix - 1)}

\* the cursor of Spec, constructed and never pulled
TreeSearchIdle ==
    /\ tree = {} /\ cap = 1 /\ profile = "release" /\ search = FullSearch
    /\ args0 = TreeSearch_new("Fs", search.objectids, search.offsets,
                              search.transids, search.types).args
    /\ args = args0 /\ bp = 0 /\ buffer = <<>>
    /\ result = "init" /\ panic = "none" /\ emitted = <<>>
    /\ requests = 0 /\ reqs = 0 /\ fails = 0 /\ pulls = 0

InitPure ==
    /\ TreeSearchIdle
    /\ LogicalInoIdle
    /\ PairIdle
    /\ call \in PureCalls
    /\ ret = [variant |-> "none"]

\* the dispatch of TreeSearch::next on a page holding the one record
Dispatch_call ==
    /\ call.fn = "dispatch" /\ ret.variant = "none"
    /\ ret' = Dispatch(<<<<call.rec>>>>, 0, HeaderOf(call.rec), call.rec)
    /\ UNCHANGED <<call, tsVars, liVars, pairVars>>

BlockGroup_call ==
    /\ call.fn = "BlockGroup::from_c_struct" /\ ret.variant = "none"
    /\ ret' = BlockGroup_from_c_struct(call.block_group)
    /\ UNCHANGED <<call, tsVars, liVars, pairVars>>

U64_call ==
    /\ call.fn = "U64::new" /\ ret.variant = "none"
    /\ ret' = [variant |-> "U64", new |-> U64_new(call.host, call.i),
               get |-> U64_get(U64_new(call.host, call.i))]
    /\ UNCHANGED <<call, tsVars, liVars, pairVars>>

U8_call ==
    /\ call.fn = "U8::new" /\ ret.variant = "none"
    /\ ret' = [variant |-> "U8", new |-> U8_new(call.host, call.i),
               get |-> U8_get(U8_new(call.host, call.i))]
    /\ UNCHANGED <<call, tsVars, liVars, pairVars>>

InitLi ==
    /\ TreeSearchIdle
    /\ PureIdle
    /\ PairIdle
    /\ \E refs \in RefsUpTo(MaxRefs), c \in 1..MaxRefs, unit \in {1, 3} :
          InitLogicalIno(refs, c, unit)

SpecLogicalIno == InitLi /\ [][LogicalIno_next]_vars

\* records of the trees two cursors are pulled over
PairRecs == {InodeRec(0, 0), InodeRefRec(0, 1, 2), InodeRec(1, 0), InodeRec(1, MaxU64)}

PairSearches == {FullSearch, [FullSearch EXCEPT !.objectids = Range(1, MaxU64)]}

\* the cursor of Spec idle over a tree both cursors of the pair search
InitPair ==
    /\ tree \in {t \in SUBSET PairRecs : Cardinality(t) <= MaxRecs}
    /\ cap \in 1..MaxRecs
    /\ profile \in {"debug", "release"}
    /\ search = FullSearch
    /\ args0 = TreeSearch_new("Fs", search.objectids, search.offsets,
                              search.transids, search.types).args
    /\ args = args0 /\ bp = 0 /\ buffer = <<>>
    /\ result = "init" /\ panic = "none" /\ emitted = <<>>
    /\ requests = 0 /\ reqs = 0 /\ fails = 0 /\ pulls = 0
    /\ PureIdle
    /\ LogicalInoIdle
    /\ \E sb \in PairSearches :
          cursors = [d \in CursorIds |->
                        Cursor_new(IF d = "A" THEN FullSearch ELSE sb)]

NextPair == \E id \in CursorIds : Pair_next(id)

SpecPair == InitPair /\ [][NextPair]_vars

NextPure == Dispatch_call \/ BlockGroup_call \/ U64_call \/ U8_call

SpecPure == InitPure /\ [][NextPure]_vars

----------------------------------------------------------------------------
(* Vocabulary of the properties *)

\* the records the caller's search specification matches
Matching0 == Matching(tree, args0)

\* what the cursor emits when every matching record fits in one page: the
\* matching records in ascending key order, each decoded where it lies
SinglePass ==
    LET all == SortByKey(Matching0)
    IN [i \in 1..Len(all) |->
          [key |-> KeyOf(all[i]),
           item |-> Dispatch(<<all>>, RecStart(all, i), HeaderOf(all[i]), all[i])]]

Ascending(s) == \A i \in 1..(Len(s) - 1) : KeyLess(s[i].key, s[i + 1].key)

\* no key field of the tree is the largest 64-bit value
NoMaxField(t) == \A r \in t : r.objectid # MaxU64 /\ r.offset # MaxU64

\* the tree holds only records the dispatch decodes
Decodable(t) == t \subseteq PagingRecs

\* the kind tag of the header a read finds (0 where the buffer is still zero)
TagOf(rd) == IF rd.what = "record" THEN rd.page[rd.idx].type ELSE 0

\* the record the cursor stands at
Current == ReadAt(buffer, bp)

\* the step is a pull that read a record header, and rd is what it read: the
\* header at the cursor, or the first header of the page it requested
PullRead(rd) ==
    /\ pulls' = pulls + 1
    /\ IF args.nr_items > 0 THEN rd = ReadAt(buffer, bp)
       ELSE result' \notin {"Err", "None"} /\ rd = ReadAt(buffer', 0)

LowerBounds(a) == <<a.min_objectid, a.min_offset, a.min_type>>

----------------------------------------------------------------------------
(* C1: pagination transparency.  With every page request succeeding and no
   key field at the 64-bit maximum, a cursor that has reached end-of-sequence
   has emitted exactly the single-pass sequence, whatever the page cap. *)
C1_PaginationTransparent ==
    (result = "None" /\ fails = 0 /\ NoMaxField(tree) /\ Decodable(tree))
        => emitted = SinglePass

(* C2: ordering.  With every page request succeeding, each emitted key is
   strictly greater than the one emitted before it under (objectid, kind,
   offset) lexicographic order. *)
C2_StrictlyAscending == (fails = 0) => Ascending(emitted)

(* C3: a pull whose page request fails returns the failure and leaves the
   buffer offset, the remaining-record count and the range filter as they
   were, so that the next pull issues the request again. *)
C3_FailureKeepsCursor ==
    [][(result' = "Err") => (args' = args /\ bp' = bp /\ RequestNeeded(args'))]_vars

(* C4: termination.  Over a tree of decodable records, with every page
   request succeeding, no pull aborts: the cursor goes on until a page
   request reports zero records and the pull returns end-of-sequence. *)
C4_ReachesEnd ==
    (Decodable(tree) /\ fails = 0) => result # "panic"

(* C5: the first pull of a fresh cursor whose search specification matches no
   record issues exactly one page request, emits nothing, and returns
   end-of-sequence (the failure, when the request fails). *)
C5_EmptySearchEndsAtOnce ==
    (pulls = 1 /\ Matching0 = {}) =>
        /\ requests = 1
        /\ emitted = <<>>
        /\ result \in {"None", "Err"}
        /\ (fails = 0 => result = "None")

C5_Witness ==
    pulls = 1 /\ Matching0 = {} /\ tree # {} /\ result = "None" /\ requests = 1

(* C6: a pull issues no page request while the remaining-record count is
   positive and exactly one when it is zero, also when that request fails. *)
C6_OneRequestPerPull ==
    [][(pulls' = pulls + 1) =>
          /\ reqs' = (IF args.nr_items = 0 THEN 1 ELSE 0)
          /\ requests' = requests + reqs']_vars

\* the two records of a page were pulled and the third pull issued the one
\* request that ended the sequence
C6_Witness ==
    /\ Len(emitted) = 2 /\ requests = 2 /\ pulls = 3
    /\ reqs = 1 /\ result = "None"

(* C7: a pull that reads a header whose kind tag is outside the vocabulary
   panics, emits nothing and leaves the cursor at that record: buffer offset,
   remaining-record count and lower bounds are not advanced past it. *)
C7_UnknownKindHardError ==
    [][\A rd \in {ReadAt(buffer, bp), ReadAt(buffer', 0)} :
          (PullRead(rd) /\ rd.what # "stale" /\ TagOf(rd) \notin KeyTypeValues) =>
              /\ result' = "panic"
              /\ emitted' = emitted
              /\ ReadAt(buffer', bp') = rd
              /\ args'.nr_items > 0
              /\ LowerBounds(args') = LowerBounds(args)]_vars

\* the second record of a page carries an unknown tag: the first was
\* emitted, the pull of the second panicked and the cursor stands at it
C7_Witness ==
    /\ result = "panic" /\ Len(emitted) = 1 /\ bp > 0
    /\ Current.what = "record" /\ TagOf(Current) \in UnknownTags
    /\ args.nr_items = 1

(* C8: the failure classes are distinct outcomes; a tag the kind-tag
   conversion accepts but the dispatch does not decode yields the
   unimplemented-kind outcome (todo), never the outcome of impossible or
   out-of-vocabulary values. *)
C8_UnimplementedIsTodo ==
    (result = "panic" /\ panic # "overflow" /\ Current.what = "record"
        /\ TagOf(Current) \in KeyTypeValues \ DecodedKinds)
        => panic = "todo"

\* kinds of the data model, by tag
EnumeratedKinds ==
    {BTRFS_ROOT_ITEM_KEY, BTRFS_ROOT_REF_KEY, BTRFS_ROOT_BACKREF_KEY,
     BTRFS_EXTENT_DATA_KEY, BTRFS_DIR_ITEM_KEY, BTRFS_DIR_INDEX_KEY,
     BTRFS_INODE_ITEM_KEY, BTRFS_INODE_REF_KEY, FREE_SPACE_HEADER_TAG,
     BTRFS_BLOCK_GROUP_ITEM_KEY}

\* the Item variant of the data model a record of an enumerated kind has
VariantOf(r) ==
    CASE r.type = BTRFS_ROOT_ITEM_KEY -> "Root"
      [] r.type = BTRFS_ROOT_REF_KEY -> "RootRef"
      [] r.type = BTRFS_ROOT_BACKREF_KEY -> "RootBackRef"
      [] r.type = BTRFS_EXTENT_DATA_KEY ->
            IF r.body.type = BTRFS_FILE_EXTENT_INLINE THEN "FileExtentInline"
                                                      ELSE "FileExtentReg"
      [] r.type = BTRFS_DIR_ITEM_KEY -> "DirItem"
      [] r.type = BTRFS_DIR_INDEX_KEY -> "DirIndex"
      [] r.type = BTRFS_INODE_ITEM_KEY -> "Inode"
      [] r.type = BTRFS_INODE_REF_KEY -> "InodeRef"
      [] r.type = FREE_SPACE_HEADER_TAG -> "FreeSpaceHeader"
      [] r.type = BTRFS_BLOCK_GROUP_ITEM_KEY -> "BlockGroup"

\* every sub-discriminant of the record is in its vocabulary
WellFormed(r) ==
    CASE r.type = BTRFS_ROOT_ITEM_KEY ->
            /\ r.body.refs \in {0, 1}
            /\ \A t \in {r.body.ctime, r.body.otime, r.body.rtime, r.body.stime} :
                  t.nsec < NanosPerSec
      [] r.type = BTRFS_EXTENT_DATA_KEY ->
            /\ r.body.type \in {BTRFS_FILE_EXTENT_INLINE, BTRFS_FILE_EXTENT_REG,
                                BTRFS_FILE_EXTENT_PREALLOC}
            /\ r.body.compression \in {BTRFS_COMPRESS_NONE, BTRFS_COMPRESS_ZLIB,
                                       BTRFS_COMPRESS_LZO, BTRFS_COMPRESS_ZSTD}
      [] r.type \in {BTRFS_DIR_ITEM_KEY, BTRFS_DIR_INDEX_KEY} ->
            r.body.type \in BTRFS_FT_REG_FILE..BTRFS_FT_XATTR
      [] OTHER -> TRUE

\* the record of the tree with the key of an emitted entry
RecOf(e) == CHOOSE r \in tree : KeyOf(r) = e.key

(* C9: a pull over a well-formed record of a kind of the data model emits a
   record of the corresponding variant and not an error. *)
C9_EnumeratedKindsDecode ==
    /\ \A i \in 1..Len(emitted) :
          emitted[i].key.type \in EnumeratedKinds =>
              emitted[i].item.variant = VariantOf(RecOf(emitted[i]))
    /\ (result = "panic" /\ Current.what = "record"
            /\ TagOf(Current) \in EnumeratedKinds
            /\ WellFormed(Current.page[Current.idx]))
          => panic = "overflow"

\* the trailing region of the record an emitted entry was decoded from
RegionOf(e) == RecOf(e).data

BodyOf(e) == RecOf(e).body

IsXattrRec(r) ==
    /\ r.type \in {BTRFS_DIR_ITEM_KEY, BTRFS_DIR_INDEX_KEY}
    /\ r.body.type = BTRFS_FT_XATTR

(* C10: a directory entry with the extended-attribute file type, name length
   n and value length m decodes to the Xattr shape: name the first n trailing
   bytes, value the following m bytes; the decode does not abort. *)
C10_XattrNameValue ==
    /\ \A i \in 1..Len(emitted) :
          (emitted[i].item.variant \in {"DirItem", "DirIndex"}
              /\ emitted[i].item.shape = "Xattr") =>
             LET n == BodyOf(emitted[i]).name_len
                 m == BodyOf(emitted[i]).data_len
             IN /\ emitted[i].item.name = SubSeq(RegionOf(emitted[i]), 1, n)
                /\ emitted[i].item.value = SubSeq(RegionOf(emitted[i]), n + 1, n + m)
    /\ (result = "panic" /\ Current.what = "record" /\ IsXattrRec(Current.page[Current.idx]))
          => panic = "overflow"

----------------------------------------------------------------------------
\* the FileType of the data model for each recognized non-xattr file type
FileTypeName(type) ==
    CASE type = BTRFS_FT_REG_FILE -> "Reg"
      [] type = BTRFS_FT_DIR -> "Dir"
      [] type = BTRFS_FT_CHRDEV -> "ChrDev"
      [] type = BTRFS_FT_BLKDEV -> "BlkDev"
      [] type = BTRFS_FT_FIFO -> "Fifo"
      [] type = BTRFS_FT_SOCK -> "Sock"
      [] type = BTRFS_FT_SYMLINK -> "Sym"

IsFileRec(r) ==
    /\ r.type \in {BTRFS_DIR_ITEM_KEY, BTRFS_DIR_INDEX_KEY}
    /\ r.body.type \in BTRFS_FT_REG_FILE..BTRFS_FT_SYMLINK

(* C11: a directory entry (DirItem or DirIndex) whose file type is one of the
   seven recognized non-xattr types decodes to the File shape with the
   corresponding FileType; the decode does not abort. *)
C11_FileTypesDecode ==
    /\ \A i \in 1..Len(emitted) :
          IsFileRec(RecOf(emitted[i])) =>
              /\ emitted[i].item.shape = "File"
              /\ emitted[i].item.type = FileTypeName(BodyOf(emitted[i]).type)
    /\ (result = "panic" /\ Current.what = "record" /\ IsFileRec(Current.page[Current.idx]))
          => panic = "overflow"

\* a sub-discriminant of the call's header is outside its vocabulary: file
\* type, extent type, compression kind, or a block-group flag bit
OutOfVocabulary ==
    \/ /\ call.fn = "dispatch"
       /\ call.rec.type \in {BTRFS_DIR_ITEM_KEY, BTRFS_DIR_INDEX_KEY}
       /\ call.rec.body.type \notin BTRFS_FT_REG_FILE..BTRFS_FT_XATTR
    \/ /\ call.fn = "dispatch"
       /\ call.rec.type = BTRFS_EXTENT_DATA_KEY
       /\ \/ call.rec.body.type \notin {BTRFS_FILE_EXTENT_INLINE, BTRFS_FILE_EXTENT_REG,
                                        BTRFS_FILE_EXTENT_PREALLOC}
          \/ call.rec.body.compression \notin {BTRFS_COMPRESS_NONE, BTRFS_COMPRESS_ZLIB,
                                               BTRFS_COMPRESS_LZO, BTRFS_COMPRESS_ZSTD}
    \/ /\ call.fn = "BlockGroup::from_c_struct"
       /\ ~(BitsOf(call.block_group.flags) \subseteq BlockGroupFlag_all)

(* C12: decoding a header whose file type, extent type, compression kind or
   block-group flags value is outside the vocabulary yields no record: the
   decode ends in the error outcome (a panic, or Err for the flags). *)
C12_OutOfVocabularyRejected ==
    (ret.variant # "none" /\ OutOfVocabulary) => ret.variant \in {"panic", "Err"}

\* a file extent of valid type and unknown compression kind was rejected
C12_Witness ==
    /\ call.fn = "dispatch" /\ call.rec.type = BTRFS_EXTENT_DATA_KEY
    /\ call.rec.body.type = BTRFS_FILE_EXTENT_REG
    /\ call.rec.body.compression \notin BTRFS_COMPRESS_NONE..BTRFS_COMPRESS_ZSTD
    /\ ret.variant = "panic"

(* C13: an inline file extent of payload length L decodes to a
   FileExtentInline whose data is exactly the bytes of the record that follow
   the fixed prefix of the extent header: L minus the prefix size of them, no
   byte of the prefix and no byte beyond the record. *)
C13_InlineDataExact ==
    \A i \in 1..Len(emitted) :
        emitted[i].item.variant = "FileExtentInline" =>
            /\ Len(emitted[i].item.data) = RecOf(emitted[i]).len - FileExtentPrefixSize
            /\ emitted[i].item.data = RegionOf(emitted[i])

\* the call is the dispatch of a file-extent record of the given extent type
ExtentCall(type) ==
    /\ call.fn = "dispatch" /\ call.rec.type = BTRFS_EXTENT_DATA_KEY
    /\ call.rec.body.type = type
    /\ ret.variant # "none"

\* the dispatch of the same header with the extent type replaced
DispatchAs(type) ==
    LET r == [call.rec EXCEPT !.body.type = type]
    IN Dispatch(<<<<r>>>>, 0, HeaderOf(r), r)

(* C14: a regular and a preallocated file-extent header that differ only in
   the extent type decode to equal FileExtentReg records; an inline header
   decodes to FileExtentInline and never to FileExtentReg. *)
C14_ExtentDispatch ==
    /\ ExtentCall(BTRFS_FILE_EXTENT_REG) =>
          LET twin == DispatchAs(BTRFS_FILE_EXTENT_PREALLOC) IN
          /\ twin.variant = ret.variant
          /\ ret.variant = "FileExtentReg" => twin = ret
          /\ ret.variant # "FileExtentReg" => IsPanic(ret) /\ twin.why = ret.why
    /\ ExtentCall(BTRFS_FILE_EXTENT_INLINE) =>
          /\ ret.variant # "FileExtentReg"
          /\ ~IsPanic(ret) => ret.variant = "FileExtentInline"

\* a regular extent decoded to a FileExtentReg its preallocated twin equals
C14_Witness ==
    /\ ExtentCall(BTRFS_FILE_EXTENT_REG)
    /\ ret.variant = "FileExtentReg"
    /\ DispatchAs(BTRFS_FILE_EXTENT_PREALLOC) = ret

\* the Duration a well-formed timestamp of a header stands for
TimeOf(t) == [variant |-> "Duration", secs |-> t.sec, nanos |-> t.nsec]

(* C15: a decoded Root record carries the header's uuid, parent_uuid and
   received_uuid, its transaction ids ctransid, stransid and rtransid, and
   its timestamps ctime, otime, stime and rtime, each under the same name. *)
C15_RootRoundTrip ==
    \A i \in 1..Len(emitted) :
        (emitted[i].item.variant = "Root" /\ WellFormed(RecOf(emitted[i]))) =>
            LET root == BodyOf(emitted[i])
                item == emitted[i].item
            IN /\ item.uuid = root.uuid
               /\ item.parent_uuid = root.parent_uuid
               /\ item.received_uuid = root.received_uuid
               /\ item.ctransid = root.ctransid
               /\ item.stransid = root.stransid
               /\ item.rtransid = root.rtransid
               /\ item.ctime = TimeOf(root.ctime)
               /\ item.otime = TimeOf(root.otime)
               /\ item.stime = TimeOf(root.stime)
               /\ item.rtime = TimeOf(root.rtime)

(* C16: for every value x of each wrapped width (U64, U8), get(new(x)) = x,
   on a little-endian host and on a big-endian host. *)
C16_WrapperIdentity ==
    ret.variant \in {"U64", "U8"} => ret.get = call.i

\* a multi-byte value with distinct first and last bytes went through
\* U64::new and U64::get on a big-endian host
C16_Witness ==
    /\ call.fn = "U64::new" /\ call.host = "big" /\ call.i = 1
    /\ ret.variant = "U64" /\ ret.get = 1

\* the bytes a raw value of n bytes has in the memory of a host
MemoryOf(host, i, n) ==
    LET le == to_le_bytes(i, n)
    IN IF host = "little" THEN le ELSE [k \in 1..n |-> le[n + 1 - k]]

(* C17: on a big-endian host U64::new(raw) stores the byte-swapped value, so
   that get() returns the number whose little-endian byte sequence is raw's
   byte sequence in memory; on a little-endian host new is the identity. *)
C17_WrapperNormalizes ==
    ret.variant = "U64" =>
        /\ ret.get = from_le_bytes(MemoryOf(call.host, call.i, U64Bytes))
        /\ call.host = "little" => ret.new = call.i

\* the step is a pull of the LogicalIno cursor
LiPull == li_pulls' = li_pulls + 1

(* C18: once the LogicalIno cursor has yielded every element of the current
   page, the next pull issues a new page request; the sequence ends only on
   a pull whose page request reported zero elements. *)
C18_LogicalInoRequeries ==
    [][LiPull =>
          /\ (li.container.some /\ li.container.elem_cnt = 0 /\ li_emitted # <<>>)
                => li_reqs' = 1
          /\ (li_result' = "None" /\ li_result # "None") => li_reqs' = 1]_vars

(* C19: a LogicalIno pull whose page request fails returns the failure and
   leaves the cursor as it was (no page stored, element index 0, same target
   address), emits nothing, and the next pull issues the request again. *)
C19_LogicalInoFailureKeepsCursor ==
    [][LiPull =>
          /\ li_result' = "Err" =>
                /\ li' = li
                /\ ~li'.container.some /\ li'.bp = 0
                /\ li_emitted' = li_emitted
          /\ li_result = "Err" => li_reqs' = 1]_vars

\* the first request failed, the pull after it issued the request again and
\* yielded the first triple of the page
C19_Witness ==
    /\ li_fails = 1 /\ li_requests = 2 /\ li_pulls = 2
    /\ li_result = "Ok" /\ li_emitted = <<inodes[1]>>

\* f lies in the caller's range [start, end)
InRange(f, range) == range.start <= f /\ f < range.end

(* C20: the caller's ranges are inclusive-exclusive: with every page request
   succeeding and no key field at the 64-bit maximum, a record is emitted
   only if its objectid, offset, transaction id and kind each lie in
   [start, end) of the range given to TreeSearch::new. *)
C20_RangesHalfOpen ==
    (fails = 0 /\ NoMaxField(tree)) =>
        \A i \in 1..Len(emitted) :
            LET r == RecOf(emitted[i])
            IN /\ InRange(r.objectid, search.objectids)
               /\ InRange(r.offset, search.offsets)
               /\ InRange(r.transid, search.transids)
               /\ InRange(r.type, search.types)

----------------------------------------------------------------------------
\* a cursor pulled alone over tree t with the page requests succeeding as oks
RECURSIVE Alone(_, _, _, _, _)
Alone(cur, t, c, prof, oks) ==
    IF oks = <<>> THEN cur
    ELSE Alone(Cursor_next(cur, t, c, prof, Head(oks)), t, c, prof, Tail(oks))

\* the state of a cursor the claim names: buffer, buffer offset, remaining
\* count and range filter
CursorState(cur) == <<cur.buffer, cur.bp, cur.args>>

(* C21: independence of cursors.  When pulls on two cursors over the same
   handle are interleaved against a fixed tree, a pull on one cursor changes
   no state (buffer, buffer offset, remaining count, range filter) of the
   other, and after it the pulled cursor has emitted exactly the sequence it
   emits when the same pulls are made on it alone. *)
C21_CursorsIndependent ==
    [][\A id \in CursorIds :
          cursors'[id].pulls = cursors[id].pulls + 1 =>
              /\ \A d \in CursorIds \ {id} :
                    CursorState(cursors'[d]) = CursorState(cursors[d])
              /\ \A d \in CursorIds :
                    cursors'[d].emitted =
                        Alone(Cursor_new(cursors'[d].search), tree, cap, profile,
                              cursors'[d].oks).emitted]_vars

\* cursor A stands in the middle of its page, one record emitted, while
\* cursor B has emitted a record from a different page of its own
C21_Witness ==
    /\ cursors["A"].bp > 0 /\ cursors["A"].args.nr_items > 0
    /\ Len(cursors["A"].emitted) = 1 /\ Len(cursors["B"].emitted) = 1
    /\ cursors["A"].buffer # cursors["B"].buffer
    /\ cursors["A"].emitted # cursors["B"].emitted

(* C22: exhausted is terminal.  Once a pull has returned end-of-sequence
   because a page request reported zero records, every later pull also
   returns end-of-sequence and issues no page request. *)
C22_ExhaustedIsTerminal ==
    [][(pulls' = pulls + 1 /\ result = "None") =>
          (result' = "None" /\ reqs' = 0)]_vars

\* the offset at which the pull of the step reads its header
ReadStart == IF RequestNeeded(args) THEN 0 ELSE bp

(* C23: bounds-checked reads.  A pull never reads a byte at or beyond the end
   of the buffer: a pull that reads a header does so, with the item and the
   trailing bytes its length fields announce, below IOCTL_BUFF_SIZE, and a
   record that would extend past the end yields the error outcome instead. *)
C23_ReadsWithinBuffer ==
    [][(pulls' = pulls + 1) =>
          \/ result' \in {"Err", "None"}
          \/ ReadEnd(buffer', ReadStart) <= IOCTL_BUFF_SIZE]_vars

(* C24: a pull that reads a record whose header carries kind tag 0, the tag
   the dispatch decodes as a free-space header, emits it as a FreeSpaceHeader
   record together with its key: building the key does not fail. *)
C24_FreeSpaceHeaderEmitted ==
    [][\A rd \in {ReadAt(buffer, bp), ReadAt(buffer', 0)} :
          (PullRead(rd) /\ rd.what = "record" /\ TagOf(rd) = FREE_SPACE_HEADER_TAG) =>
              /\ result' = "Ok"
              /\ Len(emitted') = Len(emitted) + 1
              /\ emitted'[Len(emitted')].item.variant = "FreeSpaceHeader"
              /\ emitted'[Len(emitted')].key = KeyOf(rd.page[rd.idx])]_vars

\* the step is a pull that emitted the record whose header it read at ReadStart
PullEmitted == pulls' = pulls + 1 /\ result' = "Ok"

\* the record the pull of the step read
ReadRec == LET rd == ReadAt(buffer', ReadStart) IN rd.page[rd.idx]

\* the remaining-record count the pull of the step found: the count the page
\* request reported when it issued one
CountFound ==
    IF RequestNeeded(args) THEN Len(ReadAt(buffer', ReadStart).page) ELSE args.nr_items

(* C25: cursor step.  A pull that emits a record with header (objectid o,
   kind k, offset f, payload length L) advances the buffer offset by exactly
   header size + L, decrements the remaining-record count by exactly 1, and
   leaves lower bounds for objectid, offset and kind strictly greater than
   o, f and k. *)
C25_CursorStep ==
    [][PullEmitted =>
          /\ bp' = ReadStart + HeaderSize + ReadRec.len
          /\ args'.nr_items = CountFound - 1
          /\ args'.min_objectid > ReadRec.objectid
          /\ args'.min_offset > ReadRec.offset
          /\ args'.min_type > ReadRec.type]_vars

\* the number of triples the page of the cursor holds
PageTriples == Len(li.container.buff) \div 3

(* C26: from a page that reports an element count and holds a flat array of
   triples, the LogicalIno cursor yields exactly the triples the page holds,
   in buffer order, the i-th pull returning buffer words (3i, 3i+1, 3i+2)
   counted from 0; it yields no triple built from words the page did not
   fill and never indexes the buffer at or beyond its length. *)
C26_LogicalInoYieldsPage ==
    li.container.some =>
        /\ Len(li_emitted) <= PageTriples
        /\ \A i \in 1..Min(Len(li_emitted), PageTriples) :
              li_emitted[i] = <<li.container.buff[3 * i - 2],
                                li.container.buff[3 * i - 1],
                                li.container.buff[3 * i]>>
        /\ li_result = "None" => Len(li_emitted) = PageTriples
        /\ li_result # "panic"

\* the part of the descriptor a pull is to leave alone: the tree identifier,
\* the upper bounds of the objectid, offset and kind filters, both bounds of
\* the transaction-id filter
FrameOf(a) ==
    <<a.tree_id, a.max_objectid, a.max_offset, a.max_type,
      a.min_transid, a.max_transid>>

(* C27: frame of a pull.  No pull, whether it emits a record, fails or ends
   the sequence, changes the descriptor's tree identifier, the upper bounds
   of the objectid, offset and kind filters, or either bound of the
   transaction-id filter. *)
C27_PullFrame ==
    [][(pulls' = pulls + 1) => FrameOf(args') = FrameOf(args)]_vars

\* a record was emitted, which moved the lower bounds, and the page request
\* of the next pull failed: the frame is still the one TreeSearch::new built
C27_Witness ==
    /\ result = "Err" /\ Len(emitted) = 1 /\ pulls = 2
    /\ LowerBounds(args) # LowerBounds(args0)
    /\ FrameOf(args) = FrameOf(args0)
    /\ search # FullSearch

\* the page the last successful page request wrote
CurrentPage == IF buffer = <<>> THEN <<>> ELSE Head(buffer)

\* k records of the current page have been emitted, the last k emitted, the
\* remaining count is that of the others and the offset is at the next one
DrainedTo(k) ==
    /\ k <= Len(emitted)
    /\ \A j \in 1..k : emitted[Len(emitted) - k + j].key = KeyOf(CurrentPage[j])
    /\ args.nr_items = Len(CurrentPage) - k
    /\ args.nr_items > 0 => bp = PageSize(SubSeq(CurrentPage, 1, k))

DrainInvariant ==
    IF args.nr_items = 0
    THEN result \notin {"init", "None"} => DrainedTo(Len(CurrentPage))
    ELSE \E k \in 0..Len(CurrentPage) : DrainedTo(k)

(* C28: drain invariant.  After every pull the remaining-record count equals
   the number of records of the current page not yet emitted and, while that
   count is positive, the buffer offset equals the sum of header size +
   payload length over the records of the current page already emitted; a
   pull that issues a page request and emits nothing leaves the offset 0. *)
C28_DrainInvariant ==
    [][(pulls' = pulls + 1) =>
          /\ DrainInvariant'
          /\ (reqs' = 1 /\ result' \in {"Err", "None"}) => bp' = 0]_vars

\* the step is a pull that read the header of a record the dispatch decodes
PullConsumed ==
    /\ pulls' = pulls + 1 /\ result' \notin {"Err", "None"}
    /\ Decodable(tree)
    /\ ReadAt(buffer', ReadStart).what = "record"

(* C29: advancing the range filter never overflows.  A pull that consumes a
   decodable record whose objectid and offset are any 64-bit values, the
   largest included, emits the record and leaves lower bounds that are not
   smaller than the record's objectid, offset and kind. *)
C29_AdvanceNeverOverflows ==
    [][PullConsumed =>
          /\ result' = "Ok"
          /\ emitted' = Append(emitted, emitted'[Len(emitted')])
          /\ emitted'[Len(emitted')].key = KeyOf(ReadRec)
          /\ args'.min_objectid >= ReadRec.objectid
          /\ args'.min_offset >= ReadRec.offset
          /\ args'.min_type >= ReadRec.type]_vars

IsRootRec(r) ==
    /\ r.type = BTRFS_ROOT_ITEM_KEY
    /\ \A t \in {r.body.ctime, r.body.otime, r.body.rtime, r.body.stime} :
          t.nsec < NanosPerSec

(* C30: Root decode is total over the header's flags and reference count:
   for every flags value the decoded read_only is true exactly when the
   read-only bit is set in flags, whatever the other bits, and the decode
   does not abort for any reference count. *)
C30_RootDecodeTotal ==
    /\ \A i \in 1..Len(emitted) :
          emitted[i].item.variant = "Root" =>
              (emitted[i].item.read_only
                  <=> BTRFS_ROOT_SUBVOL_RDONLY \in BitsOf(BodyOf(emitted[i]).flags))
    /\ (result = "panic" /\ Current.what = "record"
            /\ IsRootRec(Current.page[Current.idx]))
          => panic = "overflow"

====
